---------------------------- MODULE Spec2Model ----------------------------
(***************************************************************************)
(* A model of kalkulator.py: the restricted expression evaluator safe_eval *)
(* and the edit state machine of class Calculator (append, backspace,      *)
(* clear, negate, percent, evaluate, the display and the error-flash       *)
(* timer).                                                                 *)
(*                                                                         *)
(* Text is a sequence of one-character strings.  A number is a record      *)
(* [t, m, k] standing for m * 10^(-k): t is the Python type ("int",        *)
(* "float", "bool"), k = 0 or m is not a multiple of 10.  Floats are       *)
(* modelled where IEEE-754 double arithmetic agrees with exact decimal     *)
(* arithmetic: an operation on floats is computed only when both operands  *)
(* are exactly representable in binary and the exact result has at most    *)
(* FracDigits decimals and a mantissa up to MaxAbs; any other result is    *)
(* the value Unmodelled, and a handler whose outcome would need such a     *)
(* value is not explored from that buffer.                                 *)
(*                                                                         *)
(* A decimal literal of 1e309 or more reads as the float inf (t = "inf"),  *)
(* which is rendered as "inf"; arithmetic on it is not modelled.           *)
(***************************************************************************)
EXTENDS Integers, Sequences, FiniteSets, TLC

VARIABLES
    expr,      \* Calculator.expr: the pending expression text
    display,   \* Calculator.display_var: the text shown
    timers,    \* number of pending self.after(1200, self._update_display) callbacks
    last       \* the most recent call: [op, arg, err, msg, before, val]

vars == <<expr, display, timers, last>>

----------------------------------------------------------------------------
(* Bounds of the exploration *)

MaxLen == 3          \* longest buffer that typing is explored up to
MaxEdit == 5         \* longest buffer that negate and percent are explored up to
MaxSrc == 3          \* safe_eval is called with every text up to this length
MaxTimers == 2       \* pending error-flash callbacks explored
FracDigits == 5      \* decimals kept by a modelled float
MaxAbs == 1000000    \* largest modelled mantissa
LongReps == 17       \* repetitions of "+1" in the long initial buffer
MaxDividend == 7     \* a // b and a % b are explored for |a| up to this
MaxDivisor == 3      \* and for 0 < |b| up to this

(* Program constants *)

DisplayLimit == 30   \* _update_display keeps the last 30 characters

----------------------------------------------------------------------------
(* Characters *)

DigitSeq == <<"0", "1", "2", "3", "4", "5", "6", "7", "8", "9">>

Digits == {DigitSeq[i] : i \in 1..10}

DigitVal == [c \in Digits |-> (CHOOSE i \in 1..10 : DigitSeq[i] = c) - 1]

DigitChar(d) == DigitSeq[d + 1]

Letters == {"a", "b", "c", "d", "e", "f", "g", "h", "i", "j", "k", "l", "m",
            "n", "o", "p", "q", "r", "s", "t", "u", "v", "w", "x", "y", "z",
            "A", "B", "C", "D", "E", "F", "G", "H", "I", "J", "K", "L", "M",
            "N", "O", "P", "Q", "R", "S", "T", "U", "V", "W", "X", "Y", "Z", "_"}

\* str.isdigit on one character
isdigit(c) == c \in Digits

\* the characters of '÷×+-' (the test `char in '÷×+-'` on one character)
OperatorChars == {"÷", "×", "+", "-"}

Abs(n) == IF n < 0 THEN -n ELSE n

RECURSIVE Pow10(_)
Pow10(n) == IF n = 0 THEN 1 ELSE 10 * Pow10(n - 1)

RECURSIVE Rep(_, _)
Rep(s, n) == IF n = 0 THEN <<>> ELSE s \o Rep(s, n - 1)

----------------------------------------------------------------------------
(* Numbers: Python's int, float and bool as exact decimals *)

RECURSIVE Pow5(_)
Pow5(n) == IF n = 0 THEN 1 ELSE 5 * Pow5(n - 1)

Unmodelled == [t |-> "unmodelled", m |-> 0, k |-> 0]

\* m * 10^(-k) with the trailing zeros of the fraction removed
RECURSIVE Strip(_, _, _)
Strip(t, m, k) ==
    IF k > 0 /\ m % 10 = 0 THEN Strip(t, m \div 10, k - 1)
    ELSE [t |-> t, m |-> m, k |-> k]

MkInt(n) == IF Abs(n) > MaxAbs THEN Unmodelled ELSE [t |-> "int", m |-> n, k |-> 0]

MkFloat(m, k) ==
    LET v == Strip("float", m, k)
    IN  IF Abs(v.m) > MaxAbs \/ v.k > FracDigits THEN Unmodelled ELSE v

MkBool(b) == [t |-> "bool", m |-> IF b THEN 1 ELSE 0, k |-> 0]

NoneValue == [t |-> "none", m |-> 0, k |-> 0]

EllipsisValue == [t |-> "ellipsis", m |-> 0, k |-> 0]

ComplexValue == [t |-> "complex", m |-> 0, k |-> 0]

\* the float inf: what a decimal literal beyond the largest double reads as
InfValue == [t |-> "inf", m |-> 1, k |-> 0]

IsIntLike(v) == v.t \in {"int", "bool"}

IsReal(v) == v.t \in {"int", "bool", "float"}

\* float.is_integer
is_integer(v) == v.k = 0

\* The double nearest to the value is the value itself (a dyadic rational).
Exact(v) == v.m % Pow5(v.k) = 0

\* |a * b| stays within the modelled mantissas
Fits(a, b) == b = 0 \/ Abs(a) <= MaxAbs \div Abs(b)

\* the mantissa of v at the scale 10^(-k), k >= v.k, when it stays in range
CanScale(v, k) == Fits(v.m, Pow10(k - v.k))

Scaled(v, k) == v.m * Pow10(k - v.k)

Max(a, b) == IF a >= b THEN a ELSE b

(* Outcomes of a computation: a value, a raised exception, or a value the
   model does not represent. *)

Ok(v) == IF v.t = "unmodelled" THEN [kind |-> "unmodelled"]
         ELSE [kind |-> "value", v |-> v]

Raise(exc, msg) == [kind |-> "raise", exc |-> exc, msg |-> msg]

Beyond == [kind |-> "unmodelled"]

\* a faulty variant of FloorQuot: the quotient is rounded toward zero
TruncQuot(a, b) ==
    IF (a < 0) = (b < 0) THEN Abs(a) \div Abs(b) ELSE -(Abs(a) \div Abs(b))

\* floor(a / b) and a - b * floor(a / b) on integers, b # 0
FloorQuot(a, b) ==
    LET q == Abs(a) \div Abs(b)
        r == Abs(a) % Abs(b)
    IN  IF (a < 0) = (b < 0) THEN q
        ELSE IF r = 0 THEN -q ELSE -q - 1

FloorRem(a, b) == a - b * FloorQuot(a, b)

\* operator.add, operator.sub
PyAddSub(a, b, sign) ==
    IF ~(IsReal(a) /\ IsReal(b)) THEN Beyond
    ELSE IF IsIntLike(a) /\ IsIntLike(b) THEN Ok(MkInt(a.m + sign * b.m))
    ELSE LET k == Max(a.k, b.k)
         IN  IF ~(Exact(a) /\ Exact(b) /\ CanScale(a, k) /\ CanScale(b, k))
             THEN Beyond
             ELSE Ok(MkFloat(Scaled(a, k) + sign * Scaled(b, k), k))

\* operator.mul
PyMul(a, b) ==
    IF ~(IsReal(a) /\ IsReal(b)) \/ ~Fits(a.m, b.m) THEN Beyond
    ELSE IF IsIntLike(a) /\ IsIntLike(b) THEN Ok(MkInt(a.m * b.m))
    ELSE IF ~(Exact(a) /\ Exact(b)) THEN Beyond
    ELSE Ok(MkFloat(a.m * b.m, a.k + b.k))

\* the decimal expansion of (m + r/d) continued for at most FracDigits digits
RECURSIVE DivDigits(_, _, _, _)
DivDigits(m, r, d, k) ==
    IF r = 0 THEN [ok |-> TRUE, m |-> m, k |-> k]
    ELSE IF k = FracDigits \/ ~Fits(m, 10) THEN [ok |-> FALSE, m |-> 0, k |-> 0]
    ELSE DivDigits(m * 10 + (r * 10) \div d, (r * 10) % d, d, k + 1)

\* the quotient q, found by DivDigits, with its sign
QuotientOf(q, sign) == IF q.ok THEN Ok(MkFloat(sign * q.m, q.k)) ELSE Beyond

\* a / b for b # 0
Quotient(a, b) ==
    IF ~(Exact(a) /\ Exact(b) /\ Fits(a.m, Pow10(b.k)) /\ Fits(b.m, Pow10(a.k)))
    THEN Beyond
    ELSE QuotientOf(DivDigits((Abs(a.m) * Pow10(b.k)) \div (Abs(b.m) * Pow10(a.k)),
                              (Abs(a.m) * Pow10(b.k)) % (Abs(b.m) * Pow10(a.k)),
                              Abs(b.m) * Pow10(a.k), 0),
                    IF (a.m < 0) = (b.m < 0) THEN 1 ELSE -1)

\* a faulty variant of truediv: a zero divisor gives 0.0 instead of an exception
PyDivUnchecked(a, b) ==
    IF ~(IsReal(a) /\ IsReal(b)) THEN Beyond
    ELSE IF b.m = 0 THEN Ok(MkFloat(0, 0))
    ELSE Quotient(a, b)

\* operator.truediv
PyDiv(a, b) ==
    IF ~(IsReal(a) /\ IsReal(b)) THEN Beyond
    ELSE IF b.m = 0 THEN
        Raise("ZeroDivisionError",
              IF IsIntLike(a) /\ IsIntLike(b) THEN "division by zero"
              ELSE "float division by zero")
    ELSE Quotient(a, b)

\* operator.mod: the remainder has the sign of the divisor
PyMod(a, b) ==
    IF ~(IsReal(a) /\ IsReal(b)) THEN Beyond
    ELSE IF b.m = 0 THEN
        Raise("ZeroDivisionError",
              IF IsIntLike(a) /\ IsIntLike(b) THEN "integer modulo by zero"
              ELSE "float modulo")
    ELSE IF IsIntLike(a) /\ IsIntLike(b) THEN Ok(MkInt(FloorRem(a.m, b.m)))
    ELSE LET k == Max(a.k, b.k)
         IN  IF ~(Exact(a) /\ Exact(b) /\ CanScale(a, k) /\ CanScale(b, k))
             THEN Beyond
             ELSE Ok(MkFloat(FloorRem(Scaled(a, k), Scaled(b, k)), k))

\* operator.floordiv: the quotient is rounded toward negative infinity
PyFloorDiv(a, b) ==
    IF ~(IsReal(a) /\ IsReal(b)) THEN Beyond
    ELSE IF b.m = 0 THEN
        Raise("ZeroDivisionError",
              IF IsIntLike(a) /\ IsIntLike(b) THEN "integer division or modulo by zero"
              ELSE "float divmod()")
    ELSE IF IsIntLike(a) /\ IsIntLike(b) THEN Ok(MkInt(FloorQuot(a.m, b.m)))
    ELSE LET k == Max(a.k, b.k)
         IN  IF ~(Exact(a) /\ Exact(b) /\ CanScale(a, k) /\ CanScale(b, k))
             THEN Beyond
             ELSE Ok(MkFloat(FloorQuot(Scaled(a, k), Scaled(b, k)), 0))

\* acc * b^n for n >= 0 by repeated multiplication; ok is FALSE beyond MaxAbs
RECURSIVE PowLoop(_, _, _)
PowLoop(acc, b, n) ==
    IF n = 0 THEN [ok |-> TRUE, m |-> acc]
    ELSE IF ~Fits(acc, b) THEN [ok |-> FALSE, m |-> 0]
    ELSE PowLoop(acc * b, b, n - 1)

IntPow(b, n) ==
    IF n = 0 THEN [ok |-> TRUE, m |-> 1]
    ELSE IF b \in {0, 1} THEN [ok |-> TRUE, m |-> b]
    ELSE IF b = -1 THEN [ok |-> TRUE, m |-> IF n % 2 = 0 THEN 1 ELSE -1]
    ELSE PowLoop(1, b, n)

\* operator.pow
PyPow(a, b) ==
    IF ~(IsReal(a) /\ IsReal(b)) THEN Beyond
    ELSE IF IsIntLike(a) /\ IsIntLike(b) /\ b.m >= 0 THEN
        LET p == IntPow(a.m, b.m)
        IN  IF p.ok THEN Ok(MkInt(p.m)) ELSE Beyond
    ELSE IF a.m = 0 /\ b.m < 0 THEN
        Raise("ZeroDivisionError", "0.0 cannot be raised to a negative power")
    ELSE IF a.m < 0 /\ ~is_integer(b) THEN Ok(ComplexValue)
    ELSE IF ~is_integer(b) THEN
        \* a fractional power of a non-negative base: only the trivial bases
        IF a.m = 0 THEN Ok(MkFloat(0, 0))
        ELSE IF a.m = 1 /\ a.k = 0 THEN Ok(MkFloat(1, 0))
        ELSE Beyond
    ELSE IF ~Exact(a) \/ a.k * Abs(b.m) > FracDigits THEN Beyond
    ELSE LET p == IntPow(a.m, Abs(b.m))
             pk == a.k * Abs(b.m)
         IN  IF ~p.ok THEN Beyond
             ELSE IF b.m >= 0 THEN Ok(MkFloat(p.m, pk))
             ELSE PyDiv(MkFloat(1, 0), Strip("float", p.m, pk))

\* operator.neg, operator.pos (a bool becomes an int)
PyNeg(a) ==
    IF ~IsReal(a) THEN Beyond
    ELSE Ok([t |-> IF a.t = "bool" THEN "int" ELSE a.t, m |-> -a.m, k |-> a.k])

PyPos(a) ==
    IF ~IsReal(a) THEN Beyond
    ELSE Ok([t |-> IF a.t = "bool" THEN "int" ELSE a.t, m |-> a.m, k |-> a.k])

----------------------------------------------------------------------------
(* Rendering: str(int), str(float), str(bool) *)

RECURSIVE NatStr(_)
NatStr(n) ==
    IF n < 10 THEN <<DigitChar(n)>>
    ELSE NatStr(n \div 10) \o <<DigitChar(n % 10)>>

IntStr(n) == IF n < 0 THEN <<"-">> \o NatStr(-n) ELSE NatStr(n)

\* repr of a float: fixed notation while the decimal exponent is at least -4,
\* scientific notation with a two-digit exponent below that.  (Floats of 1e16
\* and more are beyond MaxAbs.)
FloatStr(v) ==
    LET d == NatStr(Abs(v.m))
        n == Len(d)
        sign == IF v.m < 0 THEN <<"-">> ELSE <<>>
        x == v.k - n + 1
    IN  IF v.k = 0 THEN sign \o d \o <<".", "0">>
        ELSE IF n > v.k THEN
            sign \o SubSeq(d, 1, n - v.k) \o <<".">> \o SubSeq(d, n - v.k + 1, n)
        ELSE IF v.k - n <= 3 THEN
            sign \o <<"0", ".">> \o Rep(<<"0">>, v.k - n) \o d
        ELSE sign \o <<d[1]>>
                  \o (IF n > 1 THEN <<".">> \o SubSeq(d, 2, n) ELSE <<>>)
                  \o <<"e", "-">>
                  \o (IF x < 10 THEN <<"0">> ELSE <<>>) \o NatStr(x)

\* str(value) for the values the evaluator can return
PyStr(v) ==
    IF v.t = "int" THEN IntStr(v.m)
    ELSE IF v.t = "bool" THEN
        (IF v.m = 1 THEN <<"T", "r", "u", "e">> ELSE <<"F", "a", "l", "s", "e">>)
    ELSE IF v.t = "inf" THEN <<"i", "n", "f">>
    ELSE FloatStr(v)

----------------------------------------------------------------------------
(* Reading numbers: float(text) and the numeric literals of the tokenizer *)

\* the index after the maximal run of digits of s that starts at i
RECURSIVE SkipDigits(_, _)
SkipDigits(s, i) ==
    IF i <= Len(s) /\ isdigit(s[i]) THEN SkipDigits(s, i + 1) ELSE i

\* the number written by the digits s[i..j-1] after acc; -1 beyond MaxAbs
RECURSIVE DigitsVal(_, _, _, _)
DigitsVal(s, i, j, acc) ==
    IF i >= j \/ acc = -1 THEN acc
    ELSE IF acc > (MaxAbs - 9) \div 10 THEN -1
    ELSE DigitsVal(s, i + 1, j, acc * 10 + DigitVal[s[i]])

HasChar(s, i, cs) == i >= 1 /\ i <= Len(s) /\ s[i] \in cs

\* the float mant * 10^(e - kf), mant and e read by DigitsVal
DecimalValue(mant, kf, e) ==
    IF mant = -1 \/ e = -1 THEN Unmodelled
    ELSE IF mant = 0 THEN MkFloat(0, 0)
    ELSE IF e - kf >= 309 THEN InfValue      \* at least 1e309: above every double
    ELSE IF e >= kf THEN
        (IF e - kf > 9 \/ ~Fits(mant, Pow10(e - kf)) THEN Unmodelled
         ELSE MkFloat(mant * Pow10(e - kf), 0))
    ELSE MkFloat(mant, kf - e)

\* the value of a literal: mant the digits before and after the point, kf the
\* number of digits after it, ev the digits of the exponent, neg its sign
LiteralValue(isfloat, mant, kf, ev, neg) ==
    IF ~isfloat THEN (IF mant = -1 THEN Unmodelled ELSE MkInt(mant))
    ELSE IF ev = -1 THEN Unmodelled
    ELSE IF neg THEN DecimalValue(mant, kf + ev, 0)
    ELSE DecimalValue(mant, kf, ev)

(* A decimal literal at s[i]: digits [. digits] [(e|E) [+|-] digits].  j1 ends
   the digits, j2 the fraction, p is where the digits of an exponent would
   start (0 without 'e'), j3 ends them.  The result is [ok, end, isfloat,
   zeros, v]: end is the index after the literal, zeros tells whether the
   digits before the point are all zeros. *)
NumberScanned(s, i, j1, j2, p, j3) ==
    [ok |-> (j1 - i) + (IF j2 > j1 THEN j2 - j1 - 1 ELSE 0) >= 1,
     end |-> IF j3 > p THEN j3 ELSE j2,
     isfloat |-> j2 > j1 \/ j3 > p,
     zeros |-> \A j \in i..(j1 - 1) : s[j] = "0",
     v |-> LiteralValue(j2 > j1 \/ j3 > p,
                        IF j2 > j1 THEN DigitsVal(s, j1 + 1, j2, DigitsVal(s, i, j1, 0))
                        ELSE DigitsVal(s, i, j1, 0),
                        IF j2 > j1 THEN j2 - j1 - 1 ELSE 0,
                        IF j3 > p THEN DigitsVal(s, p, j3, 0) ELSE 0,
                        j3 > p /\ s[p - 1] = "-")]

ScanExponentDigits(s, i, j1, j2, p) ==
    NumberScanned(s, i, j1, j2, p, IF p > 0 THEN SkipDigits(s, p) ELSE 0)

ScanExponent(s, i, j1, j2) ==
    ScanExponentDigits(s, i, j1, j2,
        IF ~HasChar(s, j2, {"e", "E"}) THEN 0
        ELSE IF HasChar(s, j2 + 1, {"+", "-"}) THEN j2 + 2 ELSE j2 + 1)

ScanFraction(s, i, j1) ==
    ScanExponent(s, i, j1, IF HasChar(s, j1, {"."}) THEN SkipDigits(s, j1 + 1) ELSE j1)

ScanNumber(s, i) == ScanFraction(s, i, SkipDigits(s, i))

\* float(num) for a text of digits, '.', 'e' and 'E': [ok, v]; ok is FALSE where
\* float raises ValueError.
FloatScanned(num, sc) ==
    IF Len(num) = 0 \/ ~sc.ok \/ sc.end # Len(num) + 1
    THEN [ok |-> FALSE, v |-> Unmodelled]
    ELSE [ok |-> TRUE,
          v |-> IF sc.v.t \in {"unmodelled", "inf"} THEN sc.v
                ELSE [t |-> "float", m |-> sc.v.m, k |-> sc.v.k]]

PyFloat(num) == FloatScanned(num, ScanNumber(num, 1))

----------------------------------------------------------------------------
(* safe_eval, first half: the symbol replacement and ast.parse(expr, mode='eval')
   on texts of digits, letters and . + - * / % ( ) ~ (no blanks, no commas, no
   0x/0o/0b prefixes or j suffixes; of the keywords only True, False, None). *)

\* str.replace(old, new) for a one-character old
RECURSIVE Replace(_, _, _)
Replace(s, old, new) ==
    IF s = <<>> THEN <<>>
    ELSE (IF Head(s) = old THEN new ELSE <<Head(s)>>) \o Replace(Tail(s), old, new)

Normalize(s) ==
    Replace(Replace(Replace(s, "×", <<"*">>), "÷", <<"/">>), "^", <<"*", "*">>)

OpToken(o) == [t |-> "op", s |-> o, v |-> NoneValue, id |-> <<>>]

NumToken(v) == [t |-> "num", s |-> "", v |-> v, id |-> <<>>]

NameToken(id) == [t |-> "name", s |-> "", v |-> NoneValue, id |-> id]

RECURSIVE SkipName(_, _)
SkipName(s, i) ==
    IF i <= Len(s) /\ (s[i] \in Letters \/ isdigit(s[i])) THEN SkipName(s, i + 1)
    ELSE i

SingleOps == {"+", "-", "*", "/", "%", "(", ")", ".", "~"}

(* The tokenizer's state [i, toks, ok, done]: the next index, the tokens so far,
   ok FALSE where the tokenizer reports a SyntaxError. *)
Scanning(i, toks) == [i |-> i, toks |-> toks, ok |-> TRUE, done |-> FALSE]

BadToken == [i |-> 0, toks |-> <<>>, ok |-> FALSE, done |-> TRUE]

\* a number: no leading zeros in a decimal integer, no letter glued to it
NumberToken(s, st, sc) ==
    IF (~sc.isfloat /\ s[st.i] = "0" /\ ~sc.zeros) \/ HasChar(s, sc.end, Letters)
    THEN BadToken
    ELSE Scanning(sc.end, Append(st.toks, NumToken(sc.v)))

NameTokenAt(s, st, j) == Scanning(j, Append(st.toks, NameToken(SubSeq(s, st.i, j - 1))))

TokenStep(s, st) ==
    IF st.i > Len(s) THEN [st EXCEPT !.done = TRUE]
    ELSE IF isdigit(s[st.i]) \/ (s[st.i] = "." /\ HasChar(s, st.i + 1, Digits)) THEN
        NumberToken(s, st, ScanNumber(s, st.i))
    ELSE IF s[st.i] \in Letters THEN NameTokenAt(s, st, SkipName(s, st.i + 1))
    ELSE IF s[st.i] = "." /\ HasChar(s, st.i + 1, {"."}) /\ HasChar(s, st.i + 2, {"."})
    THEN Scanning(st.i + 3, Append(st.toks, OpToken("...")))
    ELSE IF s[st.i] \in {"*", "/"} /\ HasChar(s, st.i + 1, {s[st.i]}) THEN
        Scanning(st.i + 2, Append(st.toks, OpToken(IF s[st.i] = "*" THEN "**" ELSE "//")))
    ELSE IF s[st.i] \in SingleOps THEN
        Scanning(st.i + 1, Append(st.toks, OpToken(s[st.i])))
    ELSE BadToken

RECURSIVE TokenLoop(_, _)
TokenLoop(s, st) == IF st.done THEN st ELSE TokenLoop(s, TokenStep(s, st))

Tokenize(s) == TokenLoop(s, Scanning(1, <<>>))

(* Syntax-tree nodes, named as the classes of module ast *)

Constant(v) == [n |-> "Constant", v |-> v]

Name(id) == [n |-> "Name", id |-> id]

BinOp(op, left, right) == [n |-> "BinOp", op |-> op, left |-> left, right |-> right]

UnaryOp(op, operand) == [n |-> "UnaryOp", op |-> op, operand |-> operand]

Call(func, args) == [n |-> "Call", func |-> func, args |-> args]

Attribute(value, attr) == [n |-> "Attribute", value |-> value, attr |-> attr]

Tuple(elts) == [n |-> "Tuple", elts |-> elts]

IsOp(toks, i, o) == i <= Len(toks) /\ toks[i].t = "op" /\ toks[i].s = o

IsOpIn(toks, i, os) == i <= Len(toks) /\ toks[i].t = "op" /\ toks[i].s \in os

SumOps == [p \in {"+", "-"} |-> IF p = "+" THEN "Add" ELSE "Sub"]

TermOps == [p \in {"*", "/", "//", "%"} |->
              CASE p = "*" -> "Mult" [] p = "/" -> "Div"
                [] p = "//" -> "FloorDiv" [] p = "%" -> "Mod"]

FactorOps == [p \in {"+", "-", "~"} |->
                CASE p = "+" -> "UAdd" [] p = "-" -> "USub" [] p = "~" -> "Invert"]

BinaryOps == [p \in {"+", "-", "*", "/", "//", "%", "**"} |->
                IF p \in DOMAIN SumOps THEN SumOps[p]
                ELSE IF p \in DOMAIN TermOps THEN TermOps[p] ELSE "Pow"]

(* The expression grammar:
     sum:     sum ('+'|'-') term | term
     term:    term ('*'|'/'|'//'|'%') factor | factor
     factor:  ('+'|'-'|'~') factor | power
     power:   primary ['**' factor]
     primary: primary '(' [sum] ')' | primary '.' NAME | atom
     atom:    NUMBER | NAME | 'True' | 'False' | 'None' | '...' | '(' [sum] ')'
   parsed by operator precedence with a stack of trees and a stack of pending
   operators: binary and prefix operators with their binding strength, and the
   two kinds of open parenthesis (grouping, call).                          *)

Pending(kind, op, prec) == [kind |-> kind, op |-> op, prec |-> prec]

\* a faulty variant of the binding strengths: + - * / // % all bind alike
StrengthFlat == [p \in DOMAIN BinaryOps |-> IF p = "**" THEN 4 ELSE 1]

\* binding strength: additive 1, multiplicative 2, prefix sign 3, power 4
Strength == [p \in DOMAIN BinaryOps |->
               IF p \in DOMAIN SumOps THEN 1 ELSE IF p \in DOMAIN TermOps THEN 2 ELSE 4]

\* When an operator arrives, the pending operators that bind at least this
\* strongly are built first: '**' groups to the right, the others to the left.
Yield == [p \in DOMAIN BinaryOps |-> IF p = "**" THEN 5 ELSE Strength[p]]

DropTop(stack, n) == SubSeq(stack, 1, Len(stack) - n)

Top(stack, n) == stack[Len(stack) - n]

\* build the pending operators of strength at least p on top of the stack
RECURSIVE Reduce(_, _, _)
Reduce(nodes, ops, p) ==
    IF ops = <<>> \/ Top(ops, 0).kind \notin {"bin", "un"} \/ Top(ops, 0).prec < p
    THEN [nodes |-> nodes, ops |-> ops]
    ELSE Reduce(IF Top(ops, 0).kind = "bin"
                THEN Append(DropTop(nodes, 2),
                            BinOp(Top(ops, 0).op, Top(nodes, 1), Top(nodes, 0)))
                ELSE Append(DropTop(nodes, 1), UnaryOp(Top(ops, 0).op, Top(nodes, 0))),
                DropTop(ops, 1), p)

AtomOf(tok) ==
    IF tok.t = "num" THEN Constant(tok.v)
    ELSE IF tok.t = "op" THEN Constant(EllipsisValue)
    ELSE IF tok.id = <<"T", "r", "u", "e">> THEN Constant(MkBool(TRUE))
    ELSE IF tok.id = <<"F", "a", "l", "s", "e">> THEN Constant(MkBool(FALSE))
    ELSE IF tok.id = <<"N", "o", "n", "e">> THEN Constant(NoneValue)
    ELSE Name(tok.id)

(* The parser's state [i, operand, nodes, ops, done, ok]: operand tells whether
   an operand is expected next. *)
ParseFailed == [i |-> 0, operand |-> FALSE, nodes |-> <<>>, ops |-> <<>>,
                done |-> TRUE, ok |-> FALSE]

ParseState(i, operand, nodes, ops) ==
    [i |-> i, operand |-> operand, nodes |-> nodes, ops |-> ops,
     done |-> FALSE, ok |-> TRUE]

\* the end of the text, the pending operators built (r): nothing may be open
ParseEnd(st, r) ==
    IF st.operand \/ r.ops # <<>> THEN ParseFailed
    ELSE [st EXCEPT !.nodes = r.nodes, !.ops = r.ops, !.done = TRUE]

\* a binary operator o, the pending operators that bind as strongly built (r)
ParseBinary(st, o, r) ==
    ParseState(st.i + 1, TRUE, r.nodes,
               Append(r.ops, Pending("bin", BinaryOps[o], Strength[o])))

\* a closing parenthesis, the pending operators inside it built (r)
ParseClose(st, r) ==
    IF r.ops = <<>> THEN ParseFailed
    ELSE IF Top(r.ops, 0).kind = "paren"
    THEN ParseState(st.i + 1, FALSE, r.nodes, DropTop(r.ops, 1))
    ELSE ParseState(st.i + 1, FALSE,
                    Append(DropTop(r.nodes, 2),
                           Call(Top(r.nodes, 1), <<Top(r.nodes, 0)>>)),
                    DropTop(r.ops, 1))

\* one token (two for an empty pair of parentheses or an attribute)
ParseStep(toks, st) ==
    IF st.i > Len(toks) THEN ParseEnd(st, Reduce(st.nodes, st.ops, 0))
    ELSE IF st.operand THEN
        IF toks[st.i].t \in {"num", "name"} \/ IsOp(toks, st.i, "...") THEN
            ParseState(st.i + 1, FALSE, Append(st.nodes, AtomOf(toks[st.i])), st.ops)
        ELSE IF IsOpIn(toks, st.i, DOMAIN FactorOps) THEN
            ParseState(st.i + 1, TRUE, st.nodes,
                       Append(st.ops, Pending("un", FactorOps[toks[st.i].s], 3)))
        ELSE IF IsOp(toks, st.i, "(") THEN
            IF IsOp(toks, st.i + 1, ")")
            THEN ParseState(st.i + 2, FALSE, Append(st.nodes, Tuple(<<>>)), st.ops)
            ELSE ParseState(st.i + 1, TRUE, st.nodes,
                            Append(st.ops, Pending("paren", "", 0)))
        ELSE ParseFailed
    ELSE IF IsOpIn(toks, st.i, DOMAIN BinaryOps) THEN
        ParseBinary(st, toks[st.i].s, Reduce(st.nodes, st.ops, Yield[toks[st.i].s]))
    ELSE IF IsOp(toks, st.i, "(") THEN
        IF IsOp(toks, st.i + 1, ")")
        THEN ParseState(st.i + 2, FALSE,
                        Append(DropTop(st.nodes, 1), Call(Top(st.nodes, 0), <<>>)),
                        st.ops)
        ELSE ParseState(st.i + 1, TRUE, st.nodes, Append(st.ops, Pending("call", "", 0)))
    ELSE IF IsOp(toks, st.i, ".") /\ st.i + 1 <= Len(toks) /\ toks[st.i + 1].t = "name"
    THEN ParseState(st.i + 2, FALSE,
                    Append(DropTop(st.nodes, 1),
                           Attribute(Top(st.nodes, 0), toks[st.i + 1].id)),
                    st.ops)
    ELSE IF IsOp(toks, st.i, ")") THEN ParseClose(st, Reduce(st.nodes, st.ops, 0))
    ELSE ParseFailed

RECURSIVE ParseLoop(_, _)
ParseLoop(toks, st) == IF st.done THEN st ELSE ParseLoop(toks, ParseStep(toks, st))

ParseResult(r) == [ok |-> r.ok, node |-> IF r.ok THEN r.nodes[1] ELSE <<>>]

ParseTokens(tk) ==
    IF tk.ok THEN ParseResult(ParseLoop(tk.toks, ParseState(1, TRUE, <<>>, <<>>)))
    ELSE [ok |-> FALSE, node |-> <<>>]

\* ast.parse(text, mode='eval'): [ok, node]; ok is FALSE for a SyntaxError
Parse(text) == ParseTokens(Tokenize(text))

----------------------------------------------------------------------------
(* safe_eval, second half: the walk over the tree *)

ALLOWED_OPERATORS ==
    {"Add", "Sub", "Mult", "Div", "Mod", "Pow", "USub", "UAdd", "FloorDiv"}

ApplyBinary(op, l, r) ==
    CASE op = "Add" -> PyAddSub(l, r, 1)
      [] op = "Sub" -> PyAddSub(l, r, -1)
      [] op = "Mult" -> PyMul(l, r)
      [] op = "Div" -> PyDiv(l, r)
      [] op = "Mod" -> PyMod(l, r)
      [] op = "Pow" -> PyPow(l, r)
      [] op = "FloorDiv" -> PyFloorDiv(l, r)

ApplyUnary(op, x) ==
    CASE op = "USub" -> PyNeg(x)
      [] op = "UAdd" -> PyPos(x)

RECURSIVE _eval(_)

\* right = _eval(node.right), then ALLOWED_OPERATORS[op_type](left, right)
EvalRight(op, left, right) ==
    IF right.kind # "value" THEN right ELSE ApplyBinary(op, left.v, right.v)

\* left = _eval(node.left); the right operand is evaluated only if that returned
EvalBinOp(op, left, node) ==
    IF left.kind # "value" THEN left ELSE EvalRight(op, left, _eval(node.right))

\* operand = _eval(node.operand), then ALLOWED_OPERATORS[op_type](operand)
EvalUnaryOp(op, operand) ==
    IF operand.kind # "value" THEN operand ELSE ApplyUnary(op, operand.v)

_eval(node) ==
    IF node.n = "Constant" THEN
        IF node.v.t \in {"int", "float", "inf", "bool", "unmodelled"} THEN Ok(node.v)
        ELSE Raise("ValueError", "Tipe konstanta tidak diizinkan")
    ELSE IF node.n = "BinOp" THEN
        IF node.op \notin ALLOWED_OPERATORS
        THEN Raise("ValueError", "Operator tidak diizinkan")
        ELSE EvalBinOp(node.op, _eval(node.left), node)
    ELSE IF node.n = "UnaryOp" THEN
        IF node.op \notin ALLOWED_OPERATORS
        THEN Raise("ValueError", "Operator unary tidak diizinkan")
        ELSE EvalUnaryOp(node.op, _eval(node.operand))
    ELSE IF node.n = "Call" THEN Raise("ValueError", "Pemanggilan fungsi tidak diizinkan")
    ELSE Raise("ValueError", "Ekspresi tidak diizinkan")

EvalParsed(p) ==
    IF ~p.ok THEN Raise("ValueError", "Sintaks salah") ELSE _eval(p.node)

safe_eval(text) == EvalParsed(Parse(Normalize(text)))

----------------------------------------------------------------------------
(* class Calculator: what each handler does to the text and the display.
   A handler's result is [expr, shown, ...]: the new text and the new display. *)

\* _update_display: the text to show for the buffer e
\* a faulty variant of the truncation: the first DisplayLimit characters are kept
TruncatedHead(text) ==
    IF Len(text) > DisplayLimit THEN SubSeq(text, 1, DisplayLimit) ELSE text

Truncated(text) ==
    IF Len(text) > DisplayLimit
    THEN SubSeq(text, Len(text) - DisplayLimit + 1, Len(text))
    ELSE text

_update_display(e) == Truncated(IF e # <<>> THEN e ELSE <<"0">>)

ErrorText == <<"E", "r", "r", "o", "r">>

\* a faulty variant of InOperators: the test is made against '/*+-'
InOperatorsAscii(char) == char = "" \/ char \in {"/", "*", "+", "-"}

\* `char in '÷×+-'` for a string char of length 0 or 1 (a substring test, so
\* the empty string passes)
InOperators(char) == char = "" \/ char \in OperatorChars

\* e + char
Plus(e, char) == IF char = "" THEN e ELSE Append(e, char)

\* e[:-1]
DropLast(e) == IF e = <<>> THEN <<>> ELSE SubSeq(e, 1, Len(e) - 1)

\* self.expr = new; self._update_display()
Shown(new) == [modelled |-> TRUE, expr |-> new, shown |-> _update_display(new)]

\* return without a change
Kept(e, shown) == [modelled |-> TRUE, expr |-> e, shown |-> shown]

NotModelled(e, shown) == [modelled |-> FALSE, expr |-> e, shown |-> shown]

\* a faulty variant of append: an operator is accepted on the empty buffer
appendOnEmpty(e, shown, char) ==
    IF InOperators(char) /\ e # <<>> /\ e[Len(e)] \in OperatorChars
    THEN Shown(Plus(DropLast(e), char))
    ELSE Shown(Plus(e, char))

\* a faulty variant of append: the character is always added at the end
appendAlways(e, shown, char) == Shown(Plus(e, char))

append(e, shown, char) ==
    IF InOperators(char) /\ (e = <<>> \/ e[Len(e)] \in OperatorChars) THEN
        IF e # <<>> THEN Shown(Plus(DropLast(e), char))
        ELSE Kept(e, shown)
    ELSE Shown(Plus(e, char))

\* a faulty variant of clear: the display is not refreshed
clearWithoutRefresh(e, shown) == Kept(<<>>, shown)

clear(e, shown) == Shown(<<>>)

\* a faulty variant of backspace: the first character is removed
backspaceFront(e, shown) == Shown(IF e = <<>> THEN <<>> ELSE Tail(e))

backspace(e, shown) == Shown(DropLast(e))

\* a faulty variant of the scan: '.' is not taken as part of the number
RECURSIVE ScanBackNoPoint(_, _)
ScanBackNoPoint(e, i) ==
    IF i >= 1 /\ (isdigit(e[i]) \/ e[i] \in {"e", "E"})
    THEN ScanBackNoPoint(e, i - 1)
    ELSE i

\* the scan of negate and percent: the last index i (0 when there is none) with
\* e[i] neither a digit nor '.' nor 'e' nor 'E'; the trailing run starts at i + 1
RECURSIVE ScanBack(_, _)
ScanBack(e, i) ==
    IF i >= 1 /\ (isdigit(e[i]) \/ e[i] = "." \/ e[i] \in {"e", "E"})
    THEN ScanBack(e, i - 1)
    ELSE i

\* str(int(val)) if val.is_integer() else str(val)
Rendered(val) == IF is_integer(val) THEN IntStr(val.m) ELSE FloatStr(val)

\* self.expr = self.expr[:i+1] + (the rendering of the new value c)
Splice(e, shown, i, c) ==
    IF c.kind # "value" THEN NotModelled(e, shown)
    ELSE Shown(SubSeq(e, 1, i) \o Rendered(c.v))

\* a faulty variant of percent's division: by 10
Tenth(val) == PyDiv(val, MkFloat(10, 0))

\* val / 100.0
Hundredth(val) == PyDiv(val, MkFloat(100, 0))

\* the new value: -val in negate, val / 100.0 in percent
Changed(op, val) == IF op = "negate" THEN PyNeg(val) ELSE Hundredth(val)

\* val = float(num) gave f
EditNumber(e, shown, i, f, op) ==
    IF ~f.ok THEN Kept(e, shown)
    ELSE IF f.v.t = "unmodelled" THEN NotModelled(e, shown)
    ELSE Splice(e, shown, i, Changed(op, f.v))

\* num = self.expr[i+1:]
EditRun(e, shown, i, op) ==
    IF i = Len(e) THEN Kept(e, shown)
    ELSE EditNumber(e, shown, i, PyFloat(SubSeq(e, i + 1, Len(e))), op)

\* the body that negate and percent share
EditLastNumber(e, shown, op) ==
    IF e = <<>> THEN Kept(e, shown)
    ELSE EditRun(e, shown, ScanBack(e, Len(e)), op)

negate(e, shown) == EditLastNumber(e, shown, "negate")

percent(e, shown) == EditLastNumber(e, shown, "percent")

(* evaluate: [modelled, expr, shown, err, msg, timer]; err is the class of the
   exception caught ("" when none), timer tells whether after(1200, ...) ran *)
Evaluated(modelled, e, shown, err, msg, timer) ==
    [modelled |-> modelled, expr |-> e, shown |-> shown, err |-> err, msg |-> msg,
     timer |-> timer]

\* self.expr = str(result); self._update_display()
Store(text) == Evaluated(TRUE, text, _update_display(text), "", "", FALSE)

\* a faulty variant of Failed: the buffer is emptied when the evaluation fails
FailedClearing(e, result) ==
    Evaluated(TRUE, <<>>, ErrorText, result.exc, result.msg, TRUE)

\* a faulty variant of Failed: no callback is scheduled
FailedWithoutTimer(e, result) ==
    Evaluated(TRUE, e, ErrorText, result.exc, result.msg, FALSE)

\* except Exception: self.display_var.set('Error'); self.after(1200, ...)
Failed(e, result) == Evaluated(TRUE, e, ErrorText, result.exc, result.msg, TRUE)

\* a faulty variant of Finish: a float result is always written as a float
FinishAsFloat(e, shown, result) ==
    IF result.kind = "raise" THEN Failed(e, result)
    ELSE IF result.kind = "unmodelled" \/ ~(IsReal(result.v) \/ result.v.t = "inf")
    THEN Evaluated(FALSE, e, shown, "", "", FALSE)
    ELSE Store(PyStr(result.v))

\* result = safe_eval(py_expr) and what follows it
Finish(e, shown, result) ==
    IF result.kind = "raise" THEN Failed(e, result)
    ELSE IF result.kind = "unmodelled" \/ ~(IsReal(result.v) \/ result.v.t = "inf")
    THEN Evaluated(FALSE, e, shown, "", "", FALSE)
    ELSE IF result.v.t = "float" /\ is_integer(result.v) THEN Store(IntStr(result.v.m))
    ELSE Store(PyStr(result.v))

\* a faulty variant of evaluate: the empty buffer is evaluated like any other
evaluateUnguarded(e, shown) ==
    Finish(e, shown, safe_eval(Replace(Replace(e, "÷", <<"/">>), "×", <<"*">>)))

evaluate(e, shown) ==
    IF e = <<>> THEN Evaluated(TRUE, e, shown, "", "", FALSE)
    ELSE Finish(e, shown, safe_eval(Replace(Replace(e, "÷", <<"/">>), "×", <<"*">>)))

----------------------------------------------------------------------------
(* The state machine.  expr is self.expr, display the text of display_var,
   timers the number of after(1200, ...) callbacks not yet run, and last the
   most recent call with what it was given and what became of it. *)

\* the characters of the sixteen append buttons of btn_specs
ButtonChars ==
    {"7", "8", "9", "÷", "4", "5", "6", "×", "1", "2", "3", "-", "0", ".", "+"}

\* values of event.char that are explored: keys that _on_key appends, the
\* empty string of a modifier key, Return, and a key that _on_key ignores
KeyChars == {"", "(", ")", "%", "*", "/", "\r", "x"}

(* Typing is explored in full with the characters TypedChars on buffers of at
   most MaxLen characters, and with every character along the buffers
   WorkedBuffers: the worked cases (those with brackets among them), a + b × c
   for the operands PrecDigits, and a buffer longer than the display. *)
TypedChars == {"", "0", "1", ".", "+", "-", "÷"}

LongBuffer == <<"-", "1">> \o Rep(<<"+", "1">>, LongReps)

PrecDigits == {"0", "2", "3", "7"}

WorkedBuffers ==
    {<<"1", "2", "+", "5">>, <<"2", "0", "0">>, <<"5", "÷", "0">>,
     <<"9", "÷", "0">>, <<"5", "%", "0">>, <<"0", ".", "2", "5">>,
     <<"1", ".", "2", ".", "5">>, <<"7", "+", "(", "5", "÷", "0", ")">>,
     <<"5", "÷", "(", "1", "-", "1", ")">>, <<"5", "÷", "0", ".", "0">>,
     <<"1", "(", "2", ")">>, <<"1", "÷", "1", "0", "0", "0", "0", "0">>,
     <<"1", "e", "9", "9", "9">>, <<"6", "÷", "2">>, <<"-", "7", "%", "2">>,
     <<"7", "%", "-", "2">>, LongBuffer}
    \cup {<<a, "+", b, "×", c>> : a \in PrecDigits, b \in PrecDigits, c \in PrecDigits}
    \cup {<<"-", "7", "+", b, "×", c>> : b \in PrecDigits, c \in PrecDigits}

\* what has been typed on the way to a buffer of WorkedBuffers
WorkedPrefixes == UNION {{SubSeq(w, 1, n) : n \in 0..Len(w)} : w \in WorkedBuffers}

Worked(new) == new \in WorkedPrefixes

\* the texts safe_eval is called with directly: every text of at most MaxSrc
\* characters of EvalAlphabet, and some longer ones
EvalAlphabet == {"0", "1", "a", "+", "/", "%", "(", ")"}

\* a // b and a % b for small integers a and b, b # 0
DivisionInputs ==
    {IntStr(a) \o op \o IntStr(b) :
        a \in (-MaxDividend)..MaxDividend,
        b \in ((-MaxDivisor)..MaxDivisor) \ {0},
        op \in {<<"/", "/">>, <<"%">>}}

EvalInputs ==
    UNION {[1..n -> EvalAlphabet] : n \in 0..MaxSrc}
    \cup DivisionInputs
    \cup {<<"T", "r", "u", "e">>, <<"T", "r", "u", "e", "+", "1">>,
          <<"N", "o", "n", "e">>, <<"a", "b", "s", "(", "1", ")">>,
          <<"1", "/", "0", "+", "x">>, <<"x", "+", "1", "/", "0">>,
          <<"1", "/", "/", "0">>, <<"1", "/", "/", "(", "1", "-", "1", ")">>,
          <<"1", "+", "1", "/", "/", "0">>, <<"1", ".", "x">>,
          <<"7", "+", "3", "*", "2">>, <<"2", "^", "3">>,
          <<"2", "*", "*", "3", "*", "*", "2">>, <<"-", "2", "*", "*", "2">>,
          <<"(", "-", "1", ")", "*", "*", "0", ".", "5">>,
          <<"(", "-", "8", ")", "^", "0", ".", "5">>,
          <<"(", "-", "2", ")", "*", "*", "2", ".", "0">>,
          <<"(", "-", "2", ")", "*", "*", "-", "1">>}

Did(op, arg, err, msg, before, val) ==
    [op |-> op, arg |-> arg, err |-> err, msg |-> msg, before |-> before, val |-> val]

Init ==
    /\ expr = <<>>
    /\ display = _update_display(<<>>)
    /\ timers = 0
    /\ last = Did("init", <<>>, "", "", <<>>, NoneValue)

\* the handler op, called with arg, has returned r
Returned(r, op, arg) ==
    /\ expr' = r.expr
    /\ display' = r.shown
    /\ last' = Did(op, arg, "", "", expr, NoneValue)
    /\ UNCHANGED timers

\* append(char) has returned r
AppendReturned(r, char) ==
    /\ ~((char \notin TypedChars \/ Len(r.expr) > MaxLen) /\ ~Worked(r.expr))
    /\ Returned(r, "append", Plus(<<>>, char))

\* negate or percent has returned r
EditReturned(r, op) ==
    /\ r.modelled
    /\ ~(Len(r.expr) > MaxEdit /\ Len(r.expr) > Len(expr) /\ ~Worked(expr))
    /\ Returned(r, op, <<>>)

EvaluateReturned(r) ==
    /\ r.modelled
    /\ r.timer => timers < MaxTimers
    /\ expr' = r.expr
    /\ display' = r.shown
    /\ timers' = IF r.timer THEN timers + 1 ELSE timers
    /\ last' = Did("evaluate", <<>>, r.err, r.msg, expr, NoneValue)

\* safe_eval(text), called directly, has given r
SafeEvalReturned(text, r) ==
    /\ r.kind # "unmodelled"
    /\ last' = IF r.kind = "raise"
               THEN Did("safe_eval", text, r.exc, r.msg, expr, NoneValue)
               ELSE Did("safe_eval", text, "", "", expr, r.v)
    /\ UNCHANGED <<expr, display, timers>>

DoAppend(char) == AppendReturned(append(expr, display, char), char)

DoEvaluate == EvaluateReturned(evaluate(expr, display))

\* a button with command=lambda: self.append(ch)
Button(ch) == DoAppend(ch)

Clear == Returned(clear(expr, display), "clear", <<>>)

Backspace == Returned(backspace(expr, display), "backspace", <<>>)

Negate == EditReturned(negate(expr, display), "negate")

Percent == EditReturned(percent(expr, display), "percent")

Evaluate == DoEvaluate

\* _on_key with event.char = key
OnKey(key) ==
    IF isdigit(key) \/ key = "" \/ key \in {".", "+", "-", "*", "/", "(", ")", "%"} THEN
        DoAppend(IF key = "/" THEN "÷" ELSE IF key = "*" THEN "×" ELSE key)
    ELSE IF key = "\r" THEN DoEvaluate
    ELSE UNCHANGED vars

\* the callback scheduled by after(1200, self._update_display)
TimerFires ==
    /\ timers > 0
    /\ timers' = timers - 1
    /\ display' = _update_display(expr)
    /\ last' = Did("timer", <<>>, "", "", expr, NoneValue)
    /\ UNCHANGED expr

(* safe_eval called directly.  Its result does not depend on the calculator, so
   direct calls are explored on the calculator as constructed, before the first
   handler runs. *)
SafeEval(text) == SafeEvalReturned(text, safe_eval(text))

Next ==
    \/ \E ch \in ButtonChars : Button(ch)
    \/ Clear
    \/ Backspace
    \/ Negate
    \/ Percent
    \/ Evaluate
    \/ \E key \in KeyChars : OnKey(key)
    \/ TimerFires
    \/ last.op = "init" /\ \E text \in EvalInputs : SafeEval(text)

Spec == Init /\ [][Next]_vars

(* Tk runs a callback scheduled by after(1200, ...) once its delay has passed,
   whatever else the user does: a pending callback is eventually run. *)
FairSpec == Spec /\ WF_vars(TimerFires)

----------------------------------------------------------------------------
(* The properties.  A property of one call relates the state before it (expr)
   to the state after it (expr', last'); last.before is the buffer the most
   recent call started from. *)

\* e holds two adjacent characters of + - × ÷
AdjacentOperators(e) ==
    \E i \in 1..(Len(e) - 1) : e[i] \in OperatorChars /\ e[i + 1] \in OperatorChars

\* C1: when evaluate fails, at whatever stage, the buffer after the call is the
\* buffer before it; evaluate replaces the buffer only when it succeeds.
C1_FailedEvaluateKeepsBuffer ==
    [][last'.op = "evaluate" =>
         /\ last'.err # "" => expr' = expr
         /\ expr' # expr => last'.err = ""]_vars

\* a non-empty buffer that did not parse and was kept by evaluate
C1_Witness ==
    /\ last.op = "evaluate"
    /\ last.msg = "Sintaks salah"
    /\ last.before # <<>>
    /\ expr = last.before

\* the messages of the errors safe_eval raises for a construct it does not allow
DisallowedMessages ==
    {"Tipe konstanta tidak diizinkan", "Operator tidak diizinkan",
     "Operator unary tidak diizinkan", "Pemanggilan fungsi tidak diizinkan",
     "Ekspresi tidak diizinkan"}

\* text is well-formed and holds a name (an identifier or a named constant)
C2_HoldsName(text) ==
    /\ Parse(Normalize(text)).ok
    /\ \E i \in 1..Len(Tokenize(Normalize(text)).toks) :
          Tokenize(Normalize(text)).toks[i].t = "name"

\* C2, as claimed: safe_eval of a text that holds a name, wherever it stands
\* and whatever else the text holds, fails with the error of a disallowed
\* construct and gives no value.
C2_NamesAreRefused ==
    last.op = "safe_eval" /\ C2_HoldsName(last.arg) =>
        last.err = "ValueError" /\ last.msg \in DisallowedMessages

\* C3, as claimed: no reachable buffer holds two adjacent characters of + - × ÷.
C3_NoAdjacentOperators == ~AdjacentOperators(expr)

\* C3, amended: append, backspace, clear, percent and evaluate never turn a
\* buffer without two adjacent characters of + - × ÷ into one with them; only
\* negate does, by writing the sign of the negated number.
C3_OnlyNegateJoinsOperators ==
    [][~AdjacentOperators(expr) /\ last'.op # "negate" => ~AdjacentOperators(expr')]_vars

\* an operator typed after an operator has taken its place
C3_Witness ==
    /\ last.op = "append"
    /\ last.arg = <<"÷">>
    /\ Len(last.before) >= 2
    /\ last.before[Len(last.before)] \in OperatorChars \ {"÷"}
    /\ expr = Append(DropLast(last.before), "÷")
    /\ ~AdjacentOperators(expr)

\* the three cases of append(ch) for a character ch
C4_Cases(e, ch) ==
    IF ch \in OperatorChars /\ e = <<>> THEN <<>>
    ELSE IF ch \in OperatorChars /\ e[Len(e)] \in OperatorChars
    THEN [e EXCEPT ![Len(e)] = ch]
    ELSE Append(e, ch)

\* C4: append(ch) of a character ch leaves an empty buffer empty when ch is one
\* of + - × ÷, replaces a last character that is one of them by ch when ch is
\* one of them (same length), and otherwise adds ch at the end (length + 1).
C4_AppendThreeCases ==
    [][last'.op = "append" /\ Len(last'.arg) = 1 =>
         /\ expr' = C4_Cases(expr, last'.arg[1])
         /\ Len(expr') = IF last'.arg[1] \in OperatorChars
                            /\ (expr = <<>> \/ expr[Len(expr)] \in OperatorChars)
                         THEN Len(expr) ELSE Len(expr) + 1]_vars

\* an operator has replaced another at the end of a buffer, the length kept
C4_Witness ==
    /\ last.op = "append"
    /\ last.arg = <<"-">>
    /\ last.before = <<"1", "+">>
    /\ expr = <<"1", "-">>

\* append('+') on the empty buffer is followed by append('-')
C5_PlusThenMinus ==
    /\ last.op = "append" /\ last.arg = <<"+">> /\ last.before = <<>>
    /\ last'.op = "append" /\ last'.arg = <<"-">>

\* C5, as claimed: from the empty buffer, append('+') then append('-') gives "-".
C5_PlusMinusGivesMinus == [][C5_PlusThenMinus => expr' = <<"-">>]_vars

\* C5, amended: from the empty buffer, append('+') then append('-') leaves the
\* buffer empty (both are refused), never "+-".
C5_PlusMinusLeavesEmpty ==
    [][C5_PlusThenMinus => expr = <<>> /\ expr' = <<>>]_vars

\* append('-') has run on the empty buffer and left it empty
C5_Witness ==
    /\ last.op = "append"
    /\ last.arg = <<"-">>
    /\ last.before = <<>>
    /\ expr = <<>>
    /\ display = <<"0">>

\* the tree holds numbers and allowed operators only
RECURSIVE C6_Arithmetic(_)
C6_Arithmetic(node) ==
    IF node.n = "Constant" THEN node.v.t \in {"int", "float"}
    ELSE IF node.n = "BinOp" THEN
        node.op \in ALLOWED_OPERATORS /\ C6_Arithmetic(node.left) /\ C6_Arithmetic(node.right)
    ELSE IF node.n = "UnaryOp" THEN
        node.op \in ALLOWED_OPERATORS /\ C6_Arithmetic(node.operand)
    ELSE FALSE

C6_IsZero(r) == r.kind = "value" /\ IsReal(r.v) /\ r.v.m = 0

\* the tree holds a division, modulo or floor division whose divisor is zero
RECURSIVE C6_ZeroDivisor(_)
C6_ZeroDivisor(node) ==
    IF node.n = "BinOp" THEN
        \/ node.op \in {"Div", "Mod", "FloorDiv"} /\ C6_IsZero(_eval(node.right))
        \/ C6_ZeroDivisor(node.left)
        \/ C6_ZeroDivisor(node.right)
    ELSE IF node.n = "UnaryOp" THEN C6_ZeroDivisor(node.operand)
    ELSE FALSE

C6_DividesByZero(text) ==
    /\ Parse(Normalize(text)).ok
    /\ C6_Arithmetic(Parse(Normalize(text)).node)
    /\ C6_ZeroDivisor(Parse(Normalize(text)).node)

\* C6: evaluating an arithmetic expression in which a division, modulo or floor
\* division has a divisor that evaluates to zero fails with ZeroDivisionError,
\* in evaluate (which then keeps the buffer) and in safe_eval called directly.
C6_DivisionByZeroFails ==
    [][/\ last'.op = "evaluate" /\ C6_DividesByZero(expr) =>
             last'.err = "ZeroDivisionError" /\ expr' = expr
       /\ last'.op = "safe_eval" /\ C6_DividesByZero(last'.arg) =>
             last'.err = "ZeroDivisionError"]_vars

\* the buffer "9÷0" has been evaluated and is still there
C6_Witness ==
    /\ last.op = "evaluate"
    /\ last.before = <<"9", "÷", "0">>
    /\ last.err = "ZeroDivisionError"
    /\ expr = <<"9", "÷", "0">>
    /\ display = ErrorText

\* the characters of a trailing numeric run
RunChars == Digits \cup {".", "e", "E"}

\* the maximal trailing run of RunChars in e starts after index TrailingRunStart(e)
TrailingRunStart(e) ==
    CHOOSE i \in 0..Len(e) :
        /\ \A j \in (i + 1)..Len(e) : e[j] \in RunChars
        /\ i = 0 \/ e[i] \notin RunChars

TrailingRun(e) == SubSeq(e, TrailingRunStart(e) + 1, Len(e))

\* new is e with its trailing run replaced by a text that reads as the number v
\* (a sign, then digits with an optional point and exponent)
ReplacesRun(e, new, v) ==
    /\ Len(new) > TrailingRunStart(e)
    /\ SubSeq(new, 1, TrailingRunStart(e)) = SubSeq(e, 1, TrailingRunStart(e))
    /\ LET tail == SubSeq(new, TrailingRunStart(e) + 1, Len(new))
       IN  IF v.m < 0
           THEN tail[1] = "-" /\ PyFloat(Tail(tail)).ok
                /\ PyFloat(Tail(tail)).v = [v EXCEPT !.m = -v.m]
           ELSE PyFloat(tail).ok /\ PyFloat(tail).v = v

\* C7: negate leaves every character before the maximal trailing run of digits,
\* '.', 'e' and 'E' as it was and replaces the run by the rendering of its
\* negated value ("12+5" becomes "12+-5"); if the run is empty or is not a
\* number, the buffer is unchanged.
C7_NegateFrame ==
    [][last'.op = "negate" =>
         /\ IF TrailingRun(expr) = <<>> \/ ~PyFloat(TrailingRun(expr)).ok
            THEN expr' = expr
            ELSE ReplacesRun(expr, expr',
                             MkFloat(-PyFloat(TrailingRun(expr)).v.m,
                                     PyFloat(TrailingRun(expr)).v.k))
         /\ expr = <<"1", "2", "+", "5">> => expr' = <<"1", "2", "+", "-", "5">>]_vars

\* negate has turned "12+5" into "12+-5"
C7_Witness ==
    /\ last.op = "negate"
    /\ last.before = <<"1", "2", "+", "5">>
    /\ expr = <<"1", "2", "+", "-", "5">>

\* C8: percent replaces the maximal trailing numeric run by the rendering of
\* its value divided by 100 and leaves the text before it as it was; a quotient
\* that is a whole number is written with digits only ("200" becomes "2"); if
\* the run is empty or is not a number, the buffer is unchanged.
C8_PercentDividesRun ==
    [][last'.op = "percent" =>
         /\ IF TrailingRun(expr) = <<>> \/ ~PyFloat(TrailingRun(expr)).ok
            THEN expr' = expr
            ELSE /\ ReplacesRun(expr, expr',
                                MkFloat(PyFloat(TrailingRun(expr)).v.m,
                                        PyFloat(TrailingRun(expr)).v.k + 2))
                 /\ is_integer(MkFloat(PyFloat(TrailingRun(expr)).v.m,
                                       PyFloat(TrailingRun(expr)).v.k + 2))
                      => \A j \in (TrailingRunStart(expr) + 1)..Len(expr') :
                            expr'[j] \in Digits
         /\ expr = <<"2", "0", "0">> => expr' = <<"2">>]_vars

\* percent has turned "200" into "2"
C8_Witness ==
    /\ last.op = "percent"
    /\ last.before = <<"2", "0", "0">>
    /\ expr = <<"2">>

\* the text the display is to show for the buffer e
C9_Shown(e) ==
    IF Len(e) = 0 THEN <<"0">>
    ELSE IF Len(e) <= 30 THEN e
    ELSE [i \in 1..30 |-> e[Len(e) - 30 + i]]

\* C9: whenever a handler has computed the display from the buffer, it shows
\* "0" for the empty buffer, the buffer itself up to 30 characters, and the
\* last 30 characters of a longer buffer.
C9_DisplayOfBuffer ==
    (\/ last.op \in {"clear", "backspace", "timer"}
     \/ last.op \in {"append", "negate", "percent"} /\ expr # last.before
     \/ last.op = "evaluate" /\ last.err = "" /\ last.before # <<>>)
    => display = C9_Shown(expr)

\* a buffer of more than 30 characters that starts with a sign, shown without it
C9_Witness ==
    /\ last.op = "backspace"
    /\ Len(expr) > 30
    /\ expr[1] = "-"
    /\ Len(display) = 30
    /\ display[1] # "-"
    /\ display[30] = expr[Len(expr)]

\* e is "a+b×c" for digits a, b, c
C10_SumOfProduct(e) ==
    /\ Len(e) = 5
    /\ e[1] \in Digits /\ e[3] \in Digits /\ e[5] \in Digits
    /\ e[2] = "+" /\ e[4] = "×"

\* the decimal text of an integer n with |n| < 100
C10_Decimal(n) ==
    (IF n < 0 THEN <<"-">> ELSE <<>>)
    \o (IF Abs(n) < 10 THEN <<DigitChar(Abs(n))>>
        ELSE <<DigitChar(Abs(n) \div 10), DigitChar(Abs(n) % 10)>>)

\* C10: evaluate gives a + b × c the value a + (b × c), also for a negative a;
\* the buffer "7+3×2" becomes "13".
C10_ProductBeforeSum ==
    [][last'.op = "evaluate" =>
         /\ C10_SumOfProduct(expr) =>
              expr' = C10_Decimal(DigitVal[expr[1]] + DigitVal[expr[3]] * DigitVal[expr[5]])
         /\ Len(expr) = 6 /\ expr[1] = "-" /\ C10_SumOfProduct(Tail(expr)) =>
              expr' = C10_Decimal(DigitVal[expr[4]] * DigitVal[expr[6]] - DigitVal[expr[2]])
         /\ expr = <<"7", "+", "3", "×", "2">> => expr' = <<"1", "3">>]_vars

\* the keys 7 + 3 × 2 have been typed and evaluate has left "13"
C10_Witness ==
    /\ last.op = "evaluate"
    /\ last.before = <<"7", "+", "3", "×", "2">>
    /\ last.err = ""
    /\ expr = <<"1", "3">>
    /\ display = <<"1", "3">>

\* C11, as claimed: an evaluate that follows a successful evaluate succeeds too
\* and leaves the buffer as the first one left it.
C11_EvaluateIdempotent ==
    [][last.op = "evaluate" /\ last.err = "" /\ last'.op = "evaluate" =>
         last'.err = "" /\ expr' = expr]_vars

\* text is an integer in decimal: digits, no leading zero, "-" before them for
\* a negative number only
C12_CanonicalInteger(text) ==
    LET d == IF text # <<>> /\ Head(text) = "-" THEN Tail(text) ELSE text
    IN  /\ d # <<>>
        /\ \A i \in 1..Len(d) : d[i] \in Digits
        /\ Len(d) > 1 => d[1] # "0"
        /\ text # <<"-", "0">>

\* the value of the buffer e is a whole number
C12_Integral(e) ==
    /\ safe_eval(e).kind = "value"
    /\ IsReal(safe_eval(e).v)
    /\ is_integer(safe_eval(e).v)

\* C12: when evaluate succeeds on a buffer whose value is a whole number, also
\* one computed by a true division, the buffer becomes the decimal text of that
\* integer, without ".0"; "6÷2" becomes "3".
C12_IntegralResultHasNoFraction ==
    [][last'.op = "evaluate" /\ last'.err = "" /\ expr # <<>> =>
         /\ C12_Integral(expr) =>
              /\ expr' = IntStr(safe_eval(expr).v.m)
              /\ C12_CanonicalInteger(expr')
         /\ expr = <<"6", "÷", "2">> => expr' = <<"3">>]_vars

\* the quotient of "6÷2", a float, has been written as "3"
C12_Witness ==
    /\ last.op = "evaluate"
    /\ last.err = ""
    /\ last.before = <<"6", "÷", "2">>
    /\ expr = <<"3">>
    /\ display = <<"3">>

\* text is a power whose base evaluates to a negative number and whose
\* exponent evaluates to a number that is not whole
C13_NegativeBaseFractionalPower(text) ==
    LET tree == Parse(Normalize(text))
    IN  /\ tree.ok
        /\ tree.node.n = "BinOp"
        /\ tree.node.op = "Pow"
        /\ LET base == _eval(tree.node.left)
               exponent == _eval(tree.node.right)
           IN  /\ base.kind = "value" /\ IsReal(base.v) /\ base.v.m < 0
               /\ exponent.kind = "value" /\ IsReal(exponent.v)
               /\ ~is_integer(exponent.v)

\* C13, as claimed: a power with a negative base and an exponent that is not
\* whole fails with an error; no value that is not real is returned.
C13_NegativePowerFails ==
    last.op = "safe_eval" /\ C13_NegativeBaseFractionalPower(last.arg) =>
        last.err # "" /\ last.val = NoneValue

\* text is a // b or a % b for integers a and b, b # 0
C14_IntegerDivision(text) ==
    LET tree == Parse(Normalize(text))
    IN  /\ tree.ok
        /\ tree.node.n = "BinOp"
        /\ tree.node.op \in {"FloorDiv", "Mod"}
        /\ LET a == _eval(tree.node.left)
               b == _eval(tree.node.right)
           IN  /\ a.kind = "value" /\ a.v.t = "int"
               /\ b.kind = "value" /\ b.v.t = "int" /\ b.v.m # 0

C14_Op(text) == Parse(Normalize(text)).node.op

C14_A(text) == _eval(Parse(Normalize(text)).node.left).v.m

C14_B(text) == _eval(Parse(Normalize(text)).node.right).v.m

\* q is a / b rounded toward negative infinity, r is zero or has the sign of b,
\* and a = b * q + r
C14_Floored(a, b, q, r) ==
    /\ IF b > 0 THEN b * q <= a /\ a < b * q + b
                ELSE b * q >= a /\ a > b * q + b
    /\ r = 0 \/ (r < 0) = (b < 0)
    /\ Abs(r) < Abs(b)
    /\ a = b * q + r

\* the integer that a // b or a % b is to give, when // gives q and % gives r
C14_Expected(text, q, r) ==
    IF C14_Floored(C14_A(text), C14_B(text), q, r)
    THEN MkInt(IF C14_Op(text) = "FloorDiv" THEN q ELSE r)
    ELSE NoneValue

\* C14: for integers a and b, b # 0, a // b is the quotient rounded toward
\* negative infinity and a % b is zero or has the sign of b, with
\* a = b * (a // b) + (a % b); evaluate writes that value into the buffer.
C14_FlooredDivision ==
    /\ last.op = "safe_eval" /\ C14_IntegerDivision(last.arg) =>
         /\ last.err = ""
         /\ last.val = C14_Expected(last.arg,
                                    safe_eval(IntStr(C14_A(last.arg)) \o <<"/", "/">>
                                              \o IntStr(C14_B(last.arg))).v.m,
                                    safe_eval(IntStr(C14_A(last.arg)) \o <<"%">>
                                              \o IntStr(C14_B(last.arg))).v.m)
    /\ last.op = "evaluate" /\ last.before = <<"-", "7", "%", "2">> => expr = <<"1">>
    /\ last.op = "evaluate" /\ last.before = <<"7", "%", "-", "2">> => expr = <<"-", "1">>

\* -7 // 2 has given -4
C14_Witness ==
    /\ last.op = "safe_eval"
    /\ last.arg = <<"-", "7", "/", "/", "2">>
    /\ last.err = ""
    /\ last.val = MkInt(-4)

\* C15: backspace removes the last character of a buffer that has one and
\* leaves every earlier character where it was; it leaves an empty buffer empty.
C15_BackspaceDropsLast ==
    [][last'.op = "backspace" =>
         IF expr = <<>> THEN expr' = <<>>
         ELSE /\ Len(expr') = Len(expr) - 1
              /\ \A i \in 1..(Len(expr) - 1) : expr'[i] = expr[i]]_vars

\* backspace has taken the "5" off "12+5"
C15_Witness ==
    /\ last.op = "backspace"
    /\ last.before = <<"1", "2", "+", "5">>
    /\ expr = <<"1", "2", "+">>

\* C16: evaluate on the empty buffer changes nothing: the buffer stays empty,
\* no error is caught, the display keeps its text (which is not the error
\* text) and no callback is scheduled.
C16_EvaluateEmptyIsNoOp ==
    [][last'.op = "evaluate" /\ expr = <<>> =>
         /\ expr' = <<>>
         /\ last'.err = ""
         /\ display' = display
         /\ display' # ErrorText
         /\ timers' = timers]_vars

\* evaluate has run on an empty buffer while an earlier callback was pending
C16_Witness ==
    /\ last.op = "evaluate"
    /\ last.before = <<>>
    /\ last.err = ""
    /\ expr = <<>>
    /\ display = <<"0">>
    /\ timers = 1

\* evaluate has just failed
C17_EvaluateFailed == last.op = "evaluate" /\ last.err # ""

\* C17: right after a failed evaluate the display shows 'Error' and a callback
\* is pending; when a callback runs, the display is the text of the buffer as
\* it is then; and a pending callback being eventually run, every failed
\* evaluate is followed by a callback that puts the text of the buffer back on
\* the display, whatever edits and evaluations come in between.
C17_ErrorFlashReverts ==
    /\ [](C17_EvaluateFailed => display = ErrorText /\ timers > 0)
    /\ [][last'.op = "timer" => display' = _update_display(expr')]_vars
    /\ C17_EvaluateFailed ~> (last.op = "timer" /\ display = _update_display(expr))

\* a callback has run and shown the buffer while the callback of a second
\* failed evaluate is still pending
C17_Witness ==
    /\ last.op = "timer"
    /\ timers = 1
    /\ expr # <<>>
    /\ display = expr

\* e opens with one of + - × ÷
C18_OpensWithOperator(e) == e # <<>> /\ e[1] \in OperatorChars

\* C18, as claimed: no reachable buffer opens with one of + - × ÷.
C18_NeverOpensWithOperator == ~C18_OpensWithOperator(expr)

\* C18, amended: append, backspace, clear and percent never turn a buffer that
\* does not open with one of + - × ÷ into one that does; only negate and
\* evaluate do, by writing the sign of a negative number.
C18_OnlySignsOpenTheBuffer ==
    [][~C18_OpensWithOperator(expr) /\ last'.op \notin {"negate", "evaluate"} =>
         ~C18_OpensWithOperator(expr')]_vars

\* append('÷') has been refused on the empty buffer
C18_Witness ==
    /\ last.op = "append"
    /\ last.arg = <<"÷">>
    /\ last.before = <<>>
    /\ expr = <<>>

\* the trailing numeric run of e is a number written the way it is rendered
\* ("5", "12", "0.25")
C19_CanonicalRun(e) ==
    /\ TrailingRun(e) # <<>>
    /\ PyFloat(TrailingRun(e)).ok
    /\ IsReal(PyFloat(TrailingRun(e)).v)
    /\ Rendered(PyFloat(TrailingRun(e)).v) = TrailingRun(e)

\* C19, as claimed: on a buffer whose trailing numeric run is a number in its
\* rendered form, negate applied twice in succession gives back the text the
\* buffer had before the first of the two.
C19_NegateTwiceRestores ==
    [][last.op = "negate" /\ C19_CanonicalRun(last.before) /\ last'.op = "negate" =>
         expr' = last.before]_vars

\* C20: whenever no callback of a failed evaluate is pending, the display shows
\* the text of the buffer: "0" for the empty buffer, else the buffer, cut to its
\* last 30 characters; also after the calls of append, negate and percent that
\* return without refreshing the display.
C20_DisplayFollowsBuffer == timers = 0 => display = C9_Shown(expr)

\* negate has returned without touching buffer or display (the buffer ends in
\* an operator), and no callback is pending
C20_Witness ==
    /\ last.op = "negate"
    /\ expr # <<>>
    /\ expr[Len(expr)] \in OperatorChars
    /\ expr = last.before
    /\ timers = 0
    /\ display = expr

=============================================================================
